---- MODULE Spec2Model ----
(***************************************************************************)
(* A model of crop_and_resize_circles.py: main(argv) parses its arguments, *)
(* walks the source tree, and for every circle the detector returns writes *)
(* the cropped circle ("large") and one resized copy per resolution.       *)
(*                                                                         *)
(* Text is modelled as sequences of one-character strings, so that         *)
(* str(), int(), strip(), split() and splitext() are computed, not assumed.*)
(* The detector's output, the outcome of cv2.imread and the outcome of     *)
(* every cv2.imwrite are inputs of the model.                              *)
(***************************************************************************)
EXTENDS Integers, Sequences, FiniteSets, TLC

VARIABLES
    argv,           \* the argument list handed to main (sys.argv[1:])
    srcIsDir,       \* os.path.isdir(argv[0])
    tree,           \* the files os.walk yields, in walk order
    pc,             \* where the run is
    ret,            \* the value main returned: <<>> until it returns
    exitStatus,     \* the status the interpreter exits with: <<>> until then
    ext,            \* output extension
    compression,    \* PNG compression level
    resolutions,    \* the resolution list
    created,        \* destination directories the run has created
    reads,          \* indices of the files handed to cv2.imread
    count,          \* counter of loaded images (line 102)
    fi,             \* position of the walk in tree
    ci,             \* position in the detector's output of the current file
    circle_count,   \* the counter the names are built from (line 146)
    ri,             \* position in the resolution list
    crop,           \* rows and columns of src_circle_cropped
    writes,         \* every cv2.imwrite call so far, in order
    log             \* what has been printed, as tags

vars == <<argv, srcIsDir, tree, pc, ret, exitStatus, ext, compression,
          resolutions, created, reads, count, fi, ci, circle_count, ri,
          crop, writes, log>>

-----------------------------------------------------------------------------
(* Bounds of the model.                                                    *)

\* files of a source tree
MaxFiles == 2

\* circles the detector returns for one image
MaxCircles == 2

\* writes of one run that fail (return False or raise)
MaxFailures == 2

-----------------------------------------------------------------------------
(* Text.                                                                   *)

DigitChars == <<"0", "1", "2", "3", "4", "5", "6", "7", "8", "9">>

IsDigit(c) == \E d \in 1..10 : DigitChars[d] = c

DigitVal(c) == (CHOOSE d \in 1..10 : DigitChars[d] = c) - 1

RECURSIVE NatStr(_)
NatStr(n) ==
    IF n < 10 THEN <<DigitChars[n + 1]>>
    ELSE NatStr(n \div 10) \o <<DigitChars[(n % 10) + 1]>>

\* str(n) of a Python int
Str(n) == IF n < 0 THEN <<"-">> \o NatStr(0 - n) ELSE NatStr(n)

RECURSIVE NatVal(_)
NatVal(s) ==
    IF Len(s) = 0 THEN 0
    ELSE 10 * NatVal(SubSeq(s, 1, Len(s) - 1)) + DigitVal(s[Len(s)])

RECURSIVE StripChars(_, _)
\* s.strip(chars): leading and trailing characters of the set removed
StripChars(s, chars) ==
    IF Len(s) = 0 THEN s
    ELSE IF s[1] \in chars THEN StripChars(Tail(s), chars)
    ELSE IF s[Len(s)] \in chars THEN StripChars(SubSeq(s, 1, Len(s) - 1), chars)
    ELSE s

RECURSIVE Split(_, _)
\* s.split(sep) for a one-character separator: never an empty list
Split(s, sep) ==
    IF \A i \in 1..Len(s) : s[i] # sep THEN <<s>>
    ELSE LET i == CHOOSE j \in 1..Len(s) :
                      s[j] = sep /\ \A h \in 1..(j - 1) : s[h] # sep
         IN  <<SubSeq(s, 1, i - 1)>> \o Split(SubSeq(s, i + 1, Len(s)), sep)

\* the digits of an int() literal, once blanks and the sign are removed
IntBody(s) ==
    LET t == StripChars(s, {" "})
    IN  IF Len(t) > 0 /\ t[1] \in {"+", "-"} THEN Tail(t) ELSE t

\* int(s) does not raise ValueError
IsInt(s) ==
    LET b == IntBody(s)
    IN  Len(b) > 0 /\ \A i \in 1..Len(b) : IsDigit(b[i])

\* int(s)
IntOf(s) ==
    LET t == StripChars(s, {" "})
    IN  IF Len(t) > 0 /\ t[1] = "-" THEN 0 - NatVal(IntBody(s))
        ELSE NatVal(IntBody(s))

\* os.path.splitext(name): the extension starts at the last dot, unless only
\* dots precede it
Splitext(name) ==
    LET dots == {i \in 1..Len(name) :
                    /\ name[i] = "."
                    /\ \E h \in 1..(i - 1) : name[h] # "."}
    IN  IF dots = {} THEN <<name, <<>>>>
        ELSE LET i == CHOOSE j \in dots : \A h \in dots : h <= j
             IN  <<SubSeq(name, 1, i - 1), SubSeq(name, i, Len(name))>>

-----------------------------------------------------------------------------
(* Argument parsing, lines 39-90.                                          *)

valid_extensions ==
    { <<".", "j", "p", "g">>, <<".", "j", "p", "e", "g">>,
      <<".", "p", "n", "g">>, <<".", "b", "m", "p">> }

\* lines 62-64: a leading dot is added when missing
NormExt(e) == IF Len(e) > 0 /\ e[1] = "." THEN e ELSE <<".">> \o e

DefaultExt == <<".", "p", "n", "g">>

DefaultResolutions == <<1000>>

\* line 85: the pieces of argv[4].strip("[]").split(",")
ResPieces(a) == Split(StripChars(a, {"[", "]"}), ",")

\* The first check of lines 40-88 that fails, or "none"
UsageError(av, isdir) ==
    IF Len(av) < 2 THEN "args"
    ELSE IF ~isdir THEN "src_folder"
    ELSE IF Len(av) > 2 /\ NormExt(av[3]) \notin valid_extensions THEN "extension"
    ELSE IF Len(av) > 3 /\ ~IsInt(av[4]) THEN "compression"
    ELSE IF Len(av) > 4 /\ \E i \in 1..Len(ResPieces(av[5])) :
                               ~IsInt(ResPieces(av[5])[i]) THEN "resolutions"
    ELSE "none"

ExtOf(av) == IF Len(av) > 2 THEN NormExt(av[3]) ELSE DefaultExt

CompressionOf(av) == IF Len(av) > 3 THEN IntOf(av[4]) ELSE 0

ResolutionsOf(av) ==
    IF Len(av) > 4
    THEN [i \in 1..Len(ResPieces(av[5])) |-> IntOf(ResPieces(av[5])[i])]
    ELSE DefaultResolutions

-----------------------------------------------------------------------------
(* Geometry, lines 145 and 185.                                            *)

\* np.uint16: unsigned 16-bit, wrapping
Uint16(x) == x % 65536

\* line 145: the detector's rounded output as unsigned 16-bit values
CastCircle(c) == <<Uint16(c[1]), Uint16(c[2]), Uint16(c[3])>>

Min(a, b) == IF a < b THEN a ELSE b

\* the length of a[lo:hi] for an axis of length n and lo, hi >= 0
SliceLen(lo, hi, n) ==
    IF Min(hi, n) > Min(lo, n) THEN Min(hi, n) - Min(lo, n) ELSE 0

\* line 185: the bounds are sums and differences of np.uint16 scalars
CropLo(center, radius) == Uint16(center - radius)

CropHi(center, radius) == Uint16(center + radius)

\* line 185: rows and columns of src_circle_cropped; c is <<x, y, radius>>
CropShape(c, w, h) ==
    [rows |-> SliceLen(CropLo(c[2], c[3]), CropHi(c[2], c[3]), h),
     cols |-> SliceLen(CropLo(c[1], c[3]), CropHi(c[1], c[3]), w)]

\* lines 190 and 220: cv2.cvtColor and cv2.resize raise on an empty image
IsEmpty(shape) == shape.rows = 0 \/ shape.cols = 0

\* line 220: cv2.resize raises unless both sides of dsize are positive
ResizeRaises(shape, res) == IsEmpty(shape) \/ res <= 0

-----------------------------------------------------------------------------
(* Names and paths, lines 194-203 and 221-227.                             *)

NameOnly(file_name) == Splitext(file_name)[1]

\* lines 195-198
LargeName(name_only, cc, e) ==
    IF cc = 1 THEN name_only \o <<"_">> \o <<"l", "a", "r", "g", "e">> \o e
    ELSE name_only \o <<"_">> \o Str(cc) \o <<"_">>
             \o <<"l", "a", "r", "g", "e">> \o e

\* lines 222-225
ResizedName(name_only, cc, res, e) ==
    IF cc = 1 THEN name_only \o <<"_">> \o Str(res) \o <<"x">> \o Str(res) \o e
    ELSE name_only \o <<"_">> \o Str(cc) \o <<"_">>
             \o Str(res) \o <<"x">> \o Str(res) \o e

\* lines 201-202, 227: os.path.join(dest_folder, rel_path, new_file_name),
\* as the pair of the relative directory and the file name
DestPath(rel_path, new_file_name) == <<rel_path, new_file_name>>

\* line 99 creates dest_folder, which is also <dest_folder>/.
DestRoot == "."

-----------------------------------------------------------------------------
(* The run.                                                                *)

\* cv2.imwrite returns True, returns False (the file could not be written;
\* lines 211 and 231 discard the value), or raises
WriteOutcomes == {"ok", "false", "raise"}

\* the outcomes the next write may have, given the writes so far
Failures == Cardinality({i \in 1..Len(writes) : writes[i].outcome # "ok"})

NextOutcomes == IF Failures < MaxFailures THEN WriteOutcomes ELSE {"ok"}

\* an except clause that does not match what cv2.imwrite raises
CaughtNothing(outcome) == FALSE

\* lines 212 and 232: the bare except takes every exception of the write
Caught(outcome) == outcome = "raise"

File == tree[fi]

\* line 145: the circles of the current file
Circles == [i \in 1..Len(File.circles) |-> CastCircle(File.circles[i])]

\* line 144: HoughCircles returned an array
Detected(f) == Len(f.circles) > 0

\* a break in place of the continue: the walk ends with the file
AfterFileBreak(i) == Len(tree) + 1

\* the inner for loop of line 106 takes the next file name
AfterFile(i) == i + 1

Printed(tag) == Append(log, [tag |-> tag, file |-> fi])

\* the for loop of line 147 goes on: the next circle, or the next file
NextCircle ==
    IF ci < Len(File.circles)
    THEN /\ pc' = "circle"
         /\ ci' = ci + 1
         /\ fi' = fi
    ELSE /\ pc' = "walk"
         /\ ci' = 0
         /\ fi' = AfterFile(fi)

Written(k, cc, name, outcome) ==
    Append(writes, [file |-> fi, pos |-> ci, k |-> k, idx |-> cc,
                    path |-> DestPath(File.dir, name), outcome |-> outcome])

\* lines 39-102
ParseArgs ==
    /\ pc = "start"
    /\ IF UsageError(argv, srcIsDir) # "none"
       THEN /\ pc' = "returned"
            /\ ret' = <<-1>>
            /\ log' = Append(log, [tag |-> "usage", file |-> 0])
            /\ UNCHANGED <<ext, compression, resolutions, created, fi>>
       ELSE /\ pc' = "walk"
            /\ ext' = ExtOf(argv)
            /\ compression' = CompressionOf(argv)
            /\ resolutions' = ResolutionsOf(argv)
            /\ created' = created \cup {DestRoot}
            /\ fi' = 1
            /\ UNCHANGED <<ret, log>>
    /\ UNCHANGED <<argv, srcIsDir, tree, exitStatus, reads, count, ci,
                   circle_count, ri, crop, writes>>

\* lines 106-147: one file name of the walk, up to the loop over its circles
LoadFile ==
    /\ pc = "walk"
    /\ fi <= Len(tree)
    /\ reads' = reads \cup {fi}
    /\ IF ~File.loadable
       THEN /\ log' = Printed("load_fail")
            /\ fi' = AfterFile(fi)
            /\ UNCHANGED <<pc, count, ci, circle_count>>
       ELSE /\ count' = count + 1
            /\ log' = Printed("original")
            /\ IF Detected(File)
               THEN /\ pc' = "circle"
                    /\ circle_count' = 0
                    /\ ci' = 1
                    /\ fi' = fi
               ELSE /\ fi' = AfterFile(fi)
                    /\ UNCHANGED <<pc, ci, circle_count>>
    /\ UNCHANGED <<argv, srcIsDir, tree, ret, exitStatus, ext, compression,
                   resolutions, created, ri, crop, writes>>

\* lines 148-216: one circle, up to the write of its large export
ProcessCircle ==
    /\ pc = "circle"
    /\ LET cc == circle_count + 1
           shape == CropShape(Circles[ci], File.w, File.h)
           name == LargeName(NameOnly(File.name), cc, ext)
       IN  /\ crop' = shape
           /\ IF IsEmpty(shape)
              THEN \* line 190: cv2.cvtColor raises, outside any try
                   /\ pc' = "raised"
                   /\ circle_count' = cc
                   /\ log' = Printed("circle")
                   /\ UNCHANGED <<created, writes, fi, ci, ri>>
              ELSE /\ created' = created \cup {File.dir}
                   /\ \E o \in NextOutcomes :
                        /\ writes' = Written(0, cc, name, o)
                        /\ IF o = "raise" /\ ~Caught(o)
                           THEN /\ pc' = "raised"
                                /\ circle_count' = cc
                                /\ log' = Printed("circle")
                                /\ UNCHANGED <<fi, ci, ri>>
                           ELSE IF Caught(o)
                           THEN /\ log' = Append(Printed("circle"),
                                            [tag |-> "write_fail", file |-> fi])
                                /\ circle_count' = cc - 1
                                /\ NextCircle
                                /\ UNCHANGED ri
                           ELSE /\ log' = Printed("circle")
                                /\ circle_count' = cc
                                /\ pc' = "resize"
                                /\ ri' = 1
                                /\ UNCHANGED <<fi, ci>>
    /\ UNCHANGED <<argv, srcIsDir, tree, ret, exitStatus, ext, compression,
                   resolutions, reads, count>>

\* lines 219-242: one resolution of the current circle; after the last one,
\* or after a write that raised, the rest of the loop body
ResizeExport ==
    /\ pc = "resize"
    /\ LET res == resolutions[ri]
           name == ResizedName(NameOnly(File.name), circle_count, res, ext)
       IN  IF ResizeRaises(crop, res)
           THEN \* line 220: cv2.resize raises, outside any try
                /\ pc' = "raised"
                /\ UNCHANGED <<writes, log, circle_count, fi, ci, ri>>
           ELSE \E o \in NextOutcomes :
                /\ writes' = Written(ri, circle_count, name, o)
                /\ IF o = "raise" /\ ~Caught(o)
                   THEN /\ pc' = "raised"
                        /\ UNCHANGED <<log, circle_count, fi, ci, ri>>
                   ELSE IF Caught(o)
                   THEN /\ log' = Append(Printed("write_fail"),
                                         [tag |-> "removed", file |-> fi])
                        /\ circle_count' = circle_count - 1
                        /\ NextCircle
                        /\ UNCHANGED ri
                   ELSE IF ri < Len(resolutions)
                   THEN /\ ri' = ri + 1
                        /\ UNCHANGED <<pc, log, circle_count, fi, ci>>
                   ELSE /\ log' = Printed("removed")
                        /\ NextCircle
                        /\ UNCHANGED <<circle_count, ri>>
    /\ UNCHANGED <<argv, srcIsDir, tree, ret, exitStatus, ext, compression,
                   resolutions, created, reads, count, crop>>

\* line 244
Return ==
    /\ pc = "walk"
    /\ fi > Len(tree)
    /\ pc' = "returned"
    /\ ret' = <<0>>
    /\ UNCHANGED <<argv, srcIsDir, tree, exitStatus, ext, compression,
                   resolutions, created, reads, count, fi, ci, circle_count,
                   ri, crop, writes, log>>

\* lines 245-246: the value of main is dropped; the interpreter exits with 0,
\* or with 1 after an uncaught exception
Exit ==
    /\ pc \in {"returned", "raised"}
    /\ pc' = "exited"
    /\ exitStatus' = IF pc = "raised" THEN <<1>> ELSE <<0>>
    /\ UNCHANGED <<argv, srcIsDir, tree, ret, ext, compression, resolutions,
                   created, reads, count, fi, ci, circle_count, ri, crop,
                   writes, log>>

Next == ParseArgs \/ LoadFile \/ ProcessCircle \/ ResizeExport \/ Return \/ Exit

-----------------------------------------------------------------------------
(* Inputs: argument lists, source trees, detector outputs.                 *)

Src == <<"s", "r", "c">>

Dst == <<"o", "u", "t">>

\* "[2,1]", "[1, 01]" (int() gives 1 twice), "[0]", "[-1]", "[a]", "[]"
ResArgs ==
    { <<"[", "2", ",", "1", "]">>,
      <<"[", "1", ",", " ", "0", "1", "]">>,
      <<"[", "0", "]">>,
      <<"[", "-", "1", "]">>,
      <<"[", "a", "]">>,
      <<"[", "]">> }

ExtArgs ==
    { <<"p", "n", "g">>, <<".", "j", "p", "g">>, <<".", "g", "i", "f">>,
      <<"P", "N", "G">>, <<>> }

CompArgs == { <<"9">>, <<"x">>, <<" ", "0">> }

AllArgvs ==
    {<<>>, <<Src>>, <<Src, Dst>>}
    \cup {<<Src, Dst, e>> : e \in ExtArgs}
    \cup {<<Src, Dst, e, c>> : e \in ExtArgs, c \in CompArgs}
    \cup {<<Src, Dst, e, c, r>> : e \in ExtArgs, c \in CompArgs, r \in ResArgs}

\* the defaults, an extension with a compression, two resolutions, a
\* resolution of 0, and two usage errors
WalkArgvs ==
    { <<Src>>, <<Src, Dst>>, <<Src, Dst, <<".", "g", "i", "f">>>>,
      <<Src, Dst, <<".", "j", "p", "g">>, <<"9">>, <<"[", "2", ",", "1", "]">>>>,
      <<Src, Dst, <<".", "j", "p", "g">>, <<"9">>, <<"[", "0", "]">>>> }

\* the defaults and every resolution list
NameArgvs ==
    {<<Src, Dst>>} \cup {<<Src, Dst, <<"p", "n", "g">>, <<"9">>, r>> : r \in ResArgs}

FileNameSeq ==
    << <<"a", ".", "j", "p", "g">>, <<"a", ".", "p", "n", "g">>,
       <<"a", "_", "2", ".", "j", "p", "g">> >>

FileNames == {FileNameSeq[i] : i \in 1..Len(FileNameSeq)}

NameRank(n) == CHOOSE i \in 1..Len(FileNameSeq) : FileNameSeq[i] = n

SeqsUpTo(S, n) == UNION {[1..k -> S] : k \in 0..n}

\* Detector outputs <<x, y, radius>> (radius in 100..499, line 138).  In a
\* 300 x 300 image: inside the image; with the bounding square left of the
\* origin; above it; beyond the right edge; touching all four edges
Inside == <<150, 150, 100>>

LeftOut == <<50, 150, 100>>

WalkDetections ==
    {<<>>, <<Inside>>, <<Inside, Inside>>, <<LeftOut>>, <<Inside, LeftOut>>}

CropCircles ==
    {Inside, LeftOut, <<150, 50, 100>>, <<250, 150, 100>>, <<150, 150, 150>>,
     <<100, 100, 100>>, <<200, 200, 100>>, <<150, 250, 100>>}

\* in a 70000 x 300 image: near the right edge
WideCircles == {<<65300, 150, 100>>, <<65500, 150, 100>>, <<69000, 150, 100>>}

Unloadable == [loadable |-> FALSE, w |-> 0, h |-> 0, circles |-> <<>>]

Images(detections, w, h) ==
    {[loadable |-> TRUE, w |-> w, h |-> h, circles |-> cs] : cs \in detections}

Files(dirs, names, images) ==
    {[dir |-> d, name |-> n, loadable |-> im.loadable, w |-> im.w, h |-> im.h,
      circles |-> im.circles] : d \in dirs, n \in names, im \in images}

\* os.walk yields every file once
Trees(files) ==
    {t \in SeqsUpTo(files, MaxFiles) :
        \A i, j \in 1..Len(t) :
            i # j => <<t[i].dir, t[i].name>> # <<t[j].dir, t[j].name>>}

\* the trees in which the directory is listed in the order of FileNameSeq
ListedInOrder(trees) ==
    {t \in trees :
        \A i, j \in 1..Len(t) : i < j => NameRank(t[i].name) < NameRank(t[j].name)}

InitWith(argvs, isdirs, trees) ==
    /\ argv \in argvs
    /\ srcIsDir \in isdirs
    /\ tree \in trees
    /\ pc = "start"
    /\ ret = <<>>
    /\ exitStatus = <<>>
    /\ ext = <<>>
    /\ compression = 0
    /\ resolutions = <<>>
    /\ created = {}
    /\ reads = {}
    /\ count = 0
    /\ fi = 0
    /\ ci = 0
    /\ circle_count = 0
    /\ ri = 0
    /\ crop = [rows |-> 0, cols |-> 0]
    /\ writes = <<>>
    /\ log = <<>>

\* The walk: every file loadable or not, every detection, failing writes;
\* one listing order, the names playing no part in the walk
Init ==
    InitWith(WalkArgvs, {TRUE},
             ListedInOrder(Trees(Files({"."}, FileNames,
                 Images(WalkDetections, 300, 300) \cup {Unloadable}))))

Spec == Init /\ [][Next]_vars

\* Names: files that differ in extension, in directory, in a _<N> suffix
InitNames ==
    InitWith(NameArgvs, {TRUE},
             Trees(Files({".", "sub"}, FileNames,
                         Images(SeqsUpTo({Inside}, MaxCircles), 300, 300))))

SpecNames == InitNames /\ [][Next]_vars

\* Arguments: every argument list, over a tree of one file
InitArgs ==
    InitWith(AllArgvs, BOOLEAN,
             Trees(Files({"."}, {<<"a", ".", "j", "p", "g">>},
                         Images({<<Inside>>}, 300, 300))))

SpecArgs == InitArgs /\ [][Next]_vars

\* Geometry: every circle position, in a small and in a very wide image
InitCrop ==
    InitWith({<<Src, Dst>>}, {TRUE},
             Trees(Files({"."}, {<<"a", ".", "j", "p", "g">>},
                         Images(SeqsUpTo(CropCircles, MaxCircles), 300, 300)
                         \cup Images(SeqsUpTo(WideCircles, MaxCircles), 70000, 300))))

SpecCrop == InitCrop /\ [][Next]_vars

-----------------------------------------------------------------------------
(* What the claims speak of.                                               *)

\* the number of circles the detector returned for the f-th file
K(f) == Len(tree[f].circles)

WritesOf(f) == {i \in 1..Len(writes) : writes[i].file = f}

PathsOf(f) == {writes[i].path : i \in WritesOf(f)}

NoWriteFailed == \A i \in 1..Len(writes) : writes[i].outcome = "ok"

\* the run is past the f-th file: the walk moved on, or the run ended
Processed(f) == fi > f \/ pc \in {"raised", "exited"}

\* the name the naming scheme gives the export of the n-th of k circles:
\* kind 0 is the large export, kind j the j-th resolution
SchemeName(f, n, kind) ==
    NameOnly(tree[f].name) \o <<"_">>
        \o (IF K(f) > 1 THEN Str(n) \o <<"_">> ELSE <<>>)
        \o (IF kind = 0 THEN <<"l", "a", "r", "g", "e">>
            ELSE Str(resolutions[kind]) \o <<"x">> \o Str(resolutions[kind]))
        \o ext

\* what was printed about the f-th file, the "Original File" line apart
NoticesOf(f) ==
    {i \in 1..Len(log) : log[i].file = f /\ log[i].tag # "original"}

EmptyDetection(f) == tree[f].loadable /\ K(f) = 0

-----------------------------------------------------------------------------
(* C1: with no write failure, every export of the N-th of k circles is     *)
(* named by the scheme: without an index when k = 1, with the index N when *)
(* k > 1, N = 1 included.                                                  *)
C1_NamesFollowScheme ==
    NoWriteFailed =>
        \A i \in 1..Len(writes) :
            writes[i].path[2] = SchemeName(writes[i].file, writes[i].pos, writes[i].k)

(* C2: once an image with k >= 1 circles is processed without a write      *)
(* failure, its exports are k * (1 + len(resolutions)) distinct files.     *)
C2_FileCount ==
    \A f \in 1..Len(tree) :
        (Processed(f) /\ f \in reads /\ K(f) >= 1 /\ NoWriteFailed)
            => Cardinality(PathsOf(f)) = K(f) * (1 + Len(resolutions))

(* C3: a resized export of a circle is attempted only after the large      *)
(* write of that circle succeeded, and resized exports follow the order of *)
(* the resolution list.                                                    *)
C3_ResizedOnlyAfterLarge ==
    \A i \in 1..Len(writes) :
        writes[i].k > 0 =>
            /\ \E j \in 1..(i - 1) :
                  /\ writes[j].file = writes[i].file
                  /\ writes[j].pos = writes[i].pos
                  /\ writes[j].k = 0
                  /\ writes[j].outcome = "ok"
            /\ \A j \in 1..(i - 1) :
                  (writes[j].file = writes[i].file /\ writes[j].pos = writes[i].pos)
                      => writes[j].k < writes[i].k

\* the step made a write, and the write failed
WriteFailsNow ==
    /\ Len(writes') = Len(writes) + 1
    /\ writes'[Len(writes')].outcome # "ok"

\* the run goes on: with the same circle, with the next circle of the file,
\* or, after the last circle, with the next file
RunGoesOn ==
    \/ pc' = "resize" /\ fi' = fi /\ ci' = ci
    \/ ci < K(fi) /\ pc' = "circle" /\ fi' = fi /\ ci' = ci + 1
    \/ ci = K(fi) /\ pc' = "walk" /\ fi' = fi + 1

\* main returned from the walk: every file was read, the large export of
\* every circle was attempted, and the value is 0
WalkComplete ==
    /\ ret = <<0>>
    /\ reads = 1..Len(tree)
    /\ \A f \in 1..Len(tree) : \A c \in 1..K(f) :
          \E i \in WritesOf(f) : writes[i].pos = c /\ writes[i].k = 0

\* a write that raised was the last export of its circle
RaiseEndsCircle ==
    \A i \in 1..Len(writes) :
        writes[i].outcome = "raise" =>
            \A j \in (i + 1)..Len(writes) :
                ~(writes[j].file = writes[i].file /\ writes[j].pos = writes[i].pos)

(* C4: a failing write ends at most the exports of its own circle: the run *)
(* goes on with the next circle or the next file, and once main has        *)
(* returned from the walk every file and circle was attempted and the      *)
(* value is 0, whatever writes failed.                                     *)
C4_WriteFailureIsLocal ==
    /\ [](RaiseEndsCircle /\ ((pc = "returned" /\ fi > 0) => WalkComplete))
    /\ [][WriteFailsNow => RunGoesOn]_vars

\* main returned 0 although a large write raised and a resized write of a
\* later circle failed, and a later file was exported after both
C4_Witness ==
    /\ pc = "returned"
    /\ ret = <<0>>
    /\ \E i, j, n \in 1..Len(writes) :
          /\ i < j /\ j < n
          /\ writes[i].outcome = "raise" /\ writes[i].k = 0
          /\ writes[j].file = writes[i].file /\ writes[j].pos > writes[i].pos
          /\ writes[j].outcome # "ok" /\ writes[j].k > 0
          /\ writes[n].file > writes[j].file
          /\ writes[n].outcome = "ok"

(* C5: on a usage error nothing is processed (no directory created, no     *)
(* file read, no file written) and the run ends with a non-zero status.    *)
C5_UsageErrorStatus ==
    UsageError(argv, srcIsDir) # "none" =>
        /\ created = {} /\ reads = {} /\ writes = <<>>
        /\ pc \in {"start", "returned", "exited"}
        /\ pc = "returned" => ret # <<0>>
        /\ pc = "exited" => exitStatus # <<0>>

(* C6: no exception leaves the processing of an image.                     *)
C6_NoExceptionPropagates == pc # "raised"

(* C7, as claimed: an image without circles produces no file and exactly   *)
(* one skip notice.                                                        *)
C7_OneSkipNotice ==
    \A f \in 1..Len(tree) :
        (EmptyDetection(f) /\ fi > f) =>
            WritesOf(f) = {} /\ Cardinality(NoticesOf(f)) = 1

(* C7, amended: an image without circles produces no file and no notice    *)
(* (the only line printed for it is the "Original File" line of every      *)
(* loaded image), and the walk goes on with the next file.                 *)
C7_EmptyDetectionSkipped ==
    /\ [](\A f \in 1..Len(tree) :
             (EmptyDetection(f) /\ f \in reads) =>
                 /\ WritesOf(f) = {}
                 /\ NoticesOf(f) = {}
                 /\ \E i \in 1..Len(log) : log[i] = [tag |-> "original", file |-> f])
    /\ [][(pc = "walk" /\ fi \in 1..Len(tree) /\ EmptyDetection(fi))
             => (pc' = "walk" /\ fi' = fi + 1 /\ writes' = writes)]_vars

\* an image without circles was passed, and the file after it was exported
C7_Witness ==
    \E f \in 1..Len(tree) :
        /\ EmptyDetection(f)
        /\ f \in reads
        /\ f < Len(tree)
        /\ \E i \in WritesOf(f + 1) : writes[i].outcome = "ok"

(* C8: the crop of a circle whose bounding square lies in the image has    *)
(* 2 * radius rows and 2 * radius columns.                                 *)
C8_CropIsSquare ==
    (pc \in {"resize", "raised"} /\ ci >= 1) =>
        LET c == Circles[ci]
        IN  (/\ c[1] - c[3] >= 0 /\ c[2] - c[3] >= 0
             /\ c[1] + c[3] <= File.w /\ c[2] + c[3] <= File.h)
                => crop = [rows |-> 2 * c[3], cols |-> 2 * c[3]]

(* C9: the index in a circle's names is its position in the detector's     *)
(* output, whatever writes failed before, and no circle writes to a path   *)
(* an earlier circle of the image wrote.                                   *)
C9_IndexIsPosition ==
    \A i \in 1..Len(writes) :
        /\ writes[i].idx = writes[i].pos
        /\ \A j \in 1..(i - 1) :
              (writes[j].file = writes[i].file /\ writes[j].pos # writes[i].pos)
                  => writes[j].path # writes[i].path

(* C10: the exports of two different source files never share a path.      *)
C10_NoSharedPath ==
    \A i, j \in 1..Len(writes) :
        (/\ writes[i].file # writes[j].file
         /\ writes[i].outcome = "ok" /\ writes[j].outcome = "ok")
            => writes[i].path # writes[j].path

====
